---- MODULE Spec2Model ----
(***************************************************************************)
(* Model of polymarket-log (src/main.py): the buffered writer Ingest, the  *)
(* per-coin Daemon.capture loop and main's two task groups.                *)
(*                                                                         *)
(* Every value of task[c].pc is a point where the coroutine is suspended   *)
(* in an await; an action is the synchronous code that runs from one await *)
(* to the next.  Time (now) is in whole seconds, as time.time_ns()//10**9. *)
(***************************************************************************)
EXTENDS Integers, Sequences, FiniteSets, TLC

VARIABLES
    now,      \* the clock, seconds since the epoch
    args,     \* parsed command line: coins, windows, directory (+ the buffers' until_flush)
    mainpc,   \* position of main(): "capture", "close", "done", "raised", "cancelled"
    daemon,   \* coin -> the Daemon object: _coin, _socket, _session, _ingest
    task,     \* coin -> the locals and position of that daemon's capture()/close() task
    conns,    \* coin -> every connection connect() returned to that daemon, in order
    fs,       \* the file system: path -> content (bytes written, one element per write)
    hist      \* coin -> history of what was delivered, appended and done (observation only)

vars == <<now, args, mainpc, daemon, task, conns, fs, hist>>

----------------------------------------------------------------------------
(* Bounds of the model *)

MaxWindows == 2       \* --windows is drawn from 1..MaxWindows
MaxUntilFlush == 2    \* until_flush is drawn from 1..MaxUntilFlush
MaxMsgs == 2          \* messages delivered to one daemon in a single-coin run
MaxMsgsMain == 1      \* messages delivered to one daemon in a two-coin run
MaxWindowsMain == 1   \* --windows is drawn from 1..MaxWindowsMain in a two-coin run
MaxDrops == 1         \* peer-initiated terminations per daemon
MaxClock == 2000      \* clock values tried by the scheduler specification

(* Program constants *)

Interval == 900       \* the window length, main.py:86, 101, 156

Coins == {"btc", "eth"}
NoDir == ""           \* directory is None
Dir == "logs"         \* a directory given with -d
StartClocks == {1000} \* the clock when main() starts

----------------------------------------------------------------------------
(* Values *)

\* f"{coin}-updown-15m-{timestamp}" (main.py:95)
Slug(coin, timestamp) == [coin |-> coin, tag |-> "-updown-15m-", start |-> timestamp]

\* the name the buffer is constructed with: the bare coin (main.py:78)
CoinName(coin) == [coin |-> coin, tag |-> "", start |-> 0]

NoName == [coin |-> "", tag |-> "", start |-> 0]

\* Path(f"{name}.jsonl") (main.py:27, 43)
FileName(name) == [dir |-> NoDir, stem |-> name, suffix |-> ".jsonl"]

\* directory / filename (main.py:31, 44)
PathJoin(directory, filename) == [filename EXCEPT !.dir = directory]

\* the identifier pair the discovery endpoint returns for a slug (main.py:149-151)
Tokens(slug) == <<[market |-> slug, outcome |-> 1], [market |-> slug, outcome |-> 2]>>
NoTokens == <<>>

\* orjson.loads(message): the decoded object of a wire message (main.py:110)
Loads(message) == message.id

\* orjson.dumps(data): the record's JSON bytes (main.py:63)
Dumps(data) == data

\* os.linesep.encode() (main.py:65)
Linesep == 0

----------------------------------------------------------------------------
(* Daemon._get_timestamp and the schedule (main.py:85-86, 153-156) *)

\* variant of GetTimestamp: rounds to the nearest grid point instead of down
GetTimestampNearest(clock) == ((clock + Interval \div 2) \div Interval) * Interval

GetTimestamp(clock) == (clock \div Interval) * Interval

Timestamps(base, windows) == [k \in 1..windows |-> base + Interval * k]

\* main.py:88
TillNext(timestamps, clock) == timestamps[1] - clock

\* main.py:101-102: run_for seconds from the loop's clock
Deadline(timestamp, clock) == clock + (timestamp + Interval - clock)

----------------------------------------------------------------------------
(* class Ingest (main.py:19-67) *)

\* Ingest.__init__ (main.py:20-33); _directory is only assigned when a directory is given
IngestInit(name, directory, until_flush) ==
    [set |-> <<>>,
     number_of_logs |-> 0,
     name |-> name,
     until_flush |-> until_flush,
     has_directory |-> directory # NoDir,
     directory |-> directory,
     filepath |-> IF directory # NoDir THEN PathJoin(directory, FileName(name))
                  ELSE FileName(name)]

\* Ingest.clear (main.py:48-50)
Clear(ing) == [ing EXCEPT !.set = <<>>, !.number_of_logs = 0]

\* the name setter reads self._directory (main.py:44): AttributeError when it was never set
SetterRaises(ing) == ~ing.has_directory

\* variant of SetName: clears the buffer but leaves the old name and path in place
SetNameStale(ing, name) == Clear(ing)

\* Ingest.name setter (main.py:39-46); when line 44 raises only line 41 has run
SetName(ing, name) ==
    IF SetterRaises(ing)
    THEN [ing EXCEPT !.name = name]
    ELSE Clear([ing EXCEPT !.name = name,
                           !.filepath = IF ing.directory # NoDir
                                        THEN PathJoin(ing.directory, FileName(name))
                                        ELSE FileName(name)])

\* Ingest.append up to its await (main.py:53-54)
IngestAppend(ing, data) ==
    [ing EXCEPT !.set = Append(@, data), !.number_of_logs = @ + 1]

\* variant of BelowThreshold: the comparison is off by one
BelowThresholdOffByOne(ing) == ing.number_of_logs <= ing.until_flush

\* main.py:56: append returns without flushing
BelowThreshold(ing) == ing.number_of_logs < ing.until_flush

\* aiofiles.open(path, "ab") (main.py:62): the file exists afterwards
OpenAppend(files, path) ==
    IF path \in DOMAIN files THEN files
    ELSE [p \in DOMAIN files \cup {path} |-> IF p = path THEN <<>> ELSE files[p]]

\* file.write(bytes) (main.py:64-65)
Write(files, path, bytes) == [files EXCEPT ![path] = Append(@, bytes)]

----------------------------------------------------------------------------
(* Initial state: main() has parsed its arguments and built the daemons   *)
(* (main.py:185-189, 74-78); no task has run yet.                          *)

NewConnection == [state |-> "open", sub |-> NoTokens, queue |-> <<>>, why |-> ""]

NewTask(created) ==
    [pc |-> IF created THEN "init" ELSE "none",
     outcome |-> "", err |-> "",
     i |-> 0, timestamps |-> <<>>, slug |-> NoName, tokens |-> NoTokens,
     wake |-> 0, deadline |-> 0,
     fkind |-> "", fidx |-> 0, handler |-> ""]

NewHist ==
    [clock0 |-> 0,      \* the clock when capture() began
     wire |-> <<>>,     \* per message id: the market it was sent for, and when
     events |-> <<>>,   \* what the task did, in order
     appends |-> 0,     \* calls of append since the buffer was last retargeted
     autos |-> 0,       \* calls of flush made by append since then
     drops |-> 0]       \* terminations by the peer

InitWith(coinSets, windowCounts, directories, thresholds) ==
    /\ args \in [coins : coinSets, windows : windowCounts,
                 directory : directories, until_flush : thresholds]
    /\ mainpc = "capture"
    /\ daemon = [c \in Coins |->
                   [coin |-> c, socket |-> 0, session |-> "open",
                    ingest |-> IngestInit(CoinName(c), args.directory, args.until_flush)]]
    /\ task = [c \in Coins |-> NewTask(c \in args.coins)]
    /\ conns = [c \in Coins |-> <<>>]
    /\ fs = [p \in {} |-> <<>>]
    /\ hist = [c \in Coins |-> NewHist]

\* one coin on the command line
Init ==
    /\ InitWith({{"btc"}}, 1..MaxWindows, {Dir, NoDir}, 1..MaxUntilFlush)
    /\ now \in StartClocks

\* two coins on the command line
InitMain ==
    /\ InitWith({Coins}, 1..MaxWindowsMain, {Dir}, 1..MaxMsgsMain)
    /\ now \in StartClocks

----------------------------------------------------------------------------
(* Helpers over the state *)

Ingest(c) == daemon[c].ingest

\* the connection self._socket refers to
Socket(c) == conns[c][daemon[c].socket]

Event(ev, name, t) == [ev |-> ev, name |-> name, t |-> t]

Log(c, e) == hist' = [hist EXCEPT ![c].events = Append(@, e)]

Finished(c) == task[c].outcome # ""

MsgLimit == IF Cardinality(args.coins) = 1 THEN MaxMsgs ELSE MaxMsgsMain

\* an exception leaves capture(): the task ends with it
Raise(c, e) ==
    task' = [task EXCEPT ![c].pc = "failed", ![c].outcome = "failed", ![c].err = e]

\* the awaits that lie inside `async with asyncio.timeout_at(deadline)` (main.py:108-111)
FlushPcs == {"flush_open", "flush_data", "flush_sep", "flush_close"}

InTimeoutScope(t) ==
    \/ t.pc = "recv"
    \/ t.pc \in FlushPcs /\ t.fkind = "auto"

----------------------------------------------------------------------------
(* Daemon.capture (main.py:84-122) *)

\* main.py:85-90: compute the schedule, go to sleep
Start(c) ==
    /\ task[c].pc = "init"
    /\ mainpc = "capture"
    /\ LET timestamps == Timestamps(GetTimestamp(now), args.windows)
           till_next == TillNext(timestamps, now)
       IN /\ task' = [task EXCEPT ![c].pc = "sleep",
                                  ![c].timestamps = timestamps,
                                  ![c].wake = now + till_next]
          /\ hist' = [hist EXCEPT ![c].clock0 = now,
                                  ![c].events = Append(@, Event("sleep", NoName,
                                                                now + till_next))]
    /\ UNCHANGED <<now, args, mainpc, daemon, conns, fs>>

\* asyncio.sleep(till_next) returns (main.py:90)
Wake(c) ==
    /\ task[c].pc = "sleep"
    /\ now >= task[c].wake
    /\ task' = [task EXCEPT ![c].pc = "connect"]
    /\ UNCHANGED <<now, args, mainpc, daemon, conns, fs, hist>>

\* self._socket = await connect(...) (main.py:92), then the first iteration of the for loop
Connect(c) ==
    /\ task[c].pc = "connect"
    /\ conns' = [conns EXCEPT ![c] = Append(@, NewConnection)]
    /\ daemon' = [daemon EXCEPT ![c].socket = Len(conns[c]) + 1]
    /\ task' = [task EXCEPT ![c].pc = "get_tokens", ![c].i = 1]
    /\ UNCHANGED <<now, args, mainpc, fs, hist>>

\* connect() raises (main.py:92, 132)
ConnectFail(c) ==
    /\ task[c].pc \in {"connect", "reconnect_connect"}
    /\ Raise(c, "OSError")
    /\ UNCHANGED <<now, args, mainpc, daemon, conns, fs, hist>>

\* main.py:95-97: resolve the window's tokens, then retarget the buffer
GetTokens(c) ==
    /\ task[c].pc = "get_tokens"
    /\ LET slug == Slug(daemon[c].coin, task[c].timestamps[task[c].i])
       IN /\ daemon' = [daemon EXCEPT ![c].ingest = SetName(@, slug)]
          /\ IF SetterRaises(Ingest(c))
             THEN task' = [task EXCEPT ![c].pc = "failed", ![c].outcome = "failed",
                                       ![c].err = "AttributeError",
                                       ![c].slug = slug, ![c].tokens = Tokens(slug)]
             ELSE task' = [task EXCEPT ![c].pc = "subscribe",
                                       ![c].slug = slug, ![c].tokens = Tokens(slug)]
          /\ hist' = [hist EXCEPT ![c].events = Append(@, Event("resolve", slug, 0)),
                                  ![c].appends = 0, ![c].autos = 0]
    /\ UNCHANGED <<now, args, mainpc, conns, fs>>

\* _get_tokens raises: network or parse error (main.py:149-151)
DiscoveryFail(c) ==
    /\ task[c].pc = "get_tokens"
    /\ Raise(c, "DiscoveryFailure")
    /\ UNCHANGED <<now, args, mainpc, daemon, conns, fs, hist>>

\* Daemon._scribe (main.py:140-147): what the send does to the connections
Scribe(c, tokens) ==
    IF daemon[c].socket = 0 THEN conns
    ELSE [conns EXCEPT ![c][daemon[c].socket].sub = tokens]

\* send() on a connection the peer has terminated raises
SendRaises(c) == daemon[c].socket # 0 /\ Socket(c).state # "open"

\* main.py:99-104: subscribe, fix the deadline, enter the receive loop
Subscribe(c) ==
    /\ task[c].pc = "subscribe"
    /\ IF SendRaises(c)
       THEN /\ Raise(c, "ConnectionClosed")
            /\ UNCHANGED <<conns, hist>>
       ELSE /\ conns' = Scribe(c, task[c].tokens)
            /\ task' = [task EXCEPT ![c].pc = "recv",
                          ![c].deadline = Deadline(task[c].timestamps[task[c].i], now)]
            /\ Log(c, Event("subscribe", task[c].tokens[1].market,
                            Deadline(task[c].timestamps[task[c].i], now)))
    /\ UNCHANGED <<now, args, mainpc, daemon, fs>>

\* main.py:109-111: a message is received, decoded and appended; append either
\* returns (line 57) or goes on to flush (line 59).  Once the deadline has
\* passed the timer wakes the suspended recv() first (Timeout below)
RecvMessage(c) ==
    /\ task[c].pc = "recv"
    /\ daemon[c].socket # 0
    /\ Socket(c).queue # <<>>
    /\ now < task[c].deadline
    /\ LET message == Head(Socket(c).queue)
           ing == IngestAppend(Ingest(c), Loads(message))
       IN /\ conns' = [conns EXCEPT ![c][daemon[c].socket].queue = Tail(@)]
          /\ daemon' = [daemon EXCEPT ![c].ingest = ing]
          /\ task' = IF BelowThreshold(ing) THEN task
                     ELSE [task EXCEPT ![c].pc = "flush_open", ![c].fkind = "auto",
                                       ![c].fidx = 0]
          /\ hist' = [hist EXCEPT
                        ![c].events = Append(@, Event("append", Ingest(c).name,
                                                      Loads(message))),
                        ![c].appends = @ + 1,
                        ![c].autos = IF BelowThreshold(ing) THEN @ ELSE @ + 1]
    /\ UNCHANGED <<now, args, mainpc, fs>>

\* recv() finds the connection terminated by the peer (main.py:109): an abnormal
\* close is ConnectionClosedError (line 117), a clean one is not and leaves capture()
RecvClosed(c) ==
    /\ task[c].pc = "recv"
    /\ daemon[c].socket # 0
    /\ Socket(c).state = "lost"
    /\ Socket(c).queue = <<>>
    /\ IF Socket(c).why = "error"
       THEN /\ task' = [task EXCEPT ![c].pc = "reconnect_close", ![c].handler = "closed"]
            /\ Log(c, Event("closed", Ingest(c).name, 0))
       ELSE /\ Raise(c, "ConnectionClosedOK")
            /\ UNCHANGED hist
    /\ UNCHANGED <<now, args, mainpc, daemon, conns, fs>>

\* variant of Timeout: the handler replaces the session without flushing
TimeoutSkipsFlush(c) ==
    /\ InTimeoutScope(task[c])
    /\ now >= task[c].deadline
    /\ task' = [task EXCEPT ![c].pc = "reconnect_close", ![c].fkind = "deadline",
                            ![c].fidx = 0, ![c].handler = "timeout"]
    /\ Log(c, Event("timeout", Ingest(c).name, 0))
    /\ UNCHANGED <<now, args, mainpc, daemon, conns, fs>>

\* variant of Timeout: the handler skips the flush of an empty buffer
TimeoutSkipsEmptyFlush(c) ==
    /\ InTimeoutScope(task[c])
    /\ now >= task[c].deadline
    /\ task' = [task EXCEPT ![c].pc = IF Ingest(c).set = <<>> THEN "reconnect_close"
                                      ELSE "flush_open",
                            ![c].fkind = "deadline",
                            ![c].fidx = 0, ![c].handler = "timeout"]
    /\ Log(c, Event("timeout", Ingest(c).name, 0))
    /\ UNCHANGED <<now, args, mainpc, daemon, conns, fs>>

\* the deadline passes while the task is suspended inside timeout_at: TimeoutError,
\* caught at main.py:112; the handler starts its flush (line 114)
Timeout(c) ==
    /\ InTimeoutScope(task[c])
    /\ now >= task[c].deadline
    /\ task' = [task EXCEPT ![c].pc = "flush_open", ![c].fkind = "deadline",
                            ![c].fidx = 0, ![c].handler = "timeout"]
    /\ Log(c, Event("timeout", Ingest(c).name, 0))
    /\ UNCHANGED <<now, args, mainpc, daemon, conns, fs>>

----------------------------------------------------------------------------
(* Ingest.flush as the task runs it (main.py:61-67): one await per step.   *)
(* fkind says who called it: "auto" is append's (line 59, inside           *)
(* timeout_at), "deadline" is the TimeoutError handler's (line 114).       *)

\* variant of FlushOpen: the line separator is written even without a record
FlushOpenWritesSeparator(c) ==
    /\ task[c].pc = "flush_open"
    /\ fs' = OpenAppend(fs, Ingest(c).filepath)
    /\ task' = [task EXCEPT ![c].pc = IF Ingest(c).set = <<>> THEN "flush_sep"
                                      ELSE "flush_data",
                            ![c].fidx = 1]
    /\ UNCHANGED <<now, args, mainpc, daemon, conns, hist>>

\* async with aiofiles.open(self._filepath, mode="ab") (main.py:62)
FlushOpen(c) ==
    /\ task[c].pc = "flush_open"
    /\ fs' = OpenAppend(fs, Ingest(c).filepath)
    /\ task' = [task EXCEPT ![c].pc = IF Ingest(c).set = <<>> THEN "flush_close"
                                      ELSE "flush_data",
                            ![c].fidx = 1]
    /\ UNCHANGED <<now, args, mainpc, daemon, conns, hist>>

\* await file.write(data) (main.py:64)
FlushWriteData(c) ==
    /\ task[c].pc = "flush_data"
    /\ fs' = Write(fs, Ingest(c).filepath, Dumps(Ingest(c).set[task[c].fidx]))
    /\ task' = [task EXCEPT ![c].pc = "flush_sep"]
    /\ UNCHANGED <<now, args, mainpc, daemon, conns, hist>>

\* await file.write(os.linesep.encode()) (main.py:65), then the next record if any
FlushWriteSep(c) ==
    /\ task[c].pc = "flush_sep"
    /\ fs' = Write(fs, Ingest(c).filepath, Linesep)
    /\ task' = [task EXCEPT ![c].pc = IF task[c].fidx < Len(Ingest(c).set)
                                      THEN "flush_data" ELSE "flush_close",
                            ![c].fidx = @ + 1]
    /\ UNCHANGED <<now, args, mainpc, daemon, conns, hist>>

\* variant of AfterFlush: the handler's flush falls back into the receive loop
AfterFlushStaysInLoop(fkind) == "recv"

\* where the task goes when flush() returns: back into the receive loop after
\* append's flush (main.py:106), on to _reconnect after the handler's (main.py:115)
AfterFlush(fkind) == IF fkind = "auto" THEN "recv" ELSE "reconnect_close"

\* the file is closed on leaving the async with, then self.clear() (main.py:67)
FlushClose(c) ==
    /\ task[c].pc = "flush_close"
    /\ daemon' = [daemon EXCEPT ![c].ingest = Clear(@)]
    /\ task' = [task EXCEPT ![c].pc = AfterFlush(task[c].fkind), ![c].fidx = 0]
    /\ IF task[c].fkind = "deadline"
       THEN Log(c, Event("flush", Ingest(c).name, 0))
       ELSE UNCHANGED hist
    /\ UNCHANGED <<now, args, mainpc, conns, fs>>

\* variant of FlushFail: a flush that fails drops the pending records
FlushFailClears(c, e) ==
    /\ task[c].pc \in FlushPcs
    /\ Raise(c, e)
    /\ daemon' = [daemon EXCEPT ![c].ingest = Clear(@)]
    /\ UNCHANGED <<now, args, mainpc, conns, fs, hist>>

\* the storage raises while the file is opened, written or closed.  ETIMEDOUT is
\* the builtin TimeoutError: inside timeout_at's try block it is caught by the
\* handler at main.py:112; every other case leaves capture()
IOErrors == {"OSError", "TimeoutError"}

FlushFail(c, e) ==
    /\ task[c].pc \in FlushPcs
    /\ IF e = "TimeoutError" /\ task[c].fkind = "auto"
       THEN /\ task' = [task EXCEPT ![c].pc = "flush_open", ![c].fkind = "deadline",
                                    ![c].fidx = 0, ![c].handler = "timeout"]
            /\ Log(c, Event("storage_timeout", Ingest(c).name, 0))
       ELSE /\ Raise(c, e)
            /\ UNCHANGED hist
    /\ UNCHANGED <<now, args, mainpc, daemon, conns, fs>>

----------------------------------------------------------------------------
(* Daemon._reconnect (main.py:129-132) and what follows it in each handler *)

\* if self._socket: await self._socket.close() (main.py:130-131)
CloseSocket(c) ==
    IF daemon[c].socket = 0 THEN conns
    ELSE [conns EXCEPT ![c][daemon[c].socket].state = "closed",
                       ![c][daemon[c].socket].queue = <<>>]

\* variant of ReconnectClose: the existing connection is left as it is
ReconnectCloseLeavesOpen(c) ==
    /\ task[c].pc = "reconnect_close"
    /\ task' = [task EXCEPT ![c].pc = "reconnect_connect"]
    /\ UNCHANGED <<now, args, mainpc, daemon, conns, fs, hist>>

\* variant of ReconnectClose: replacing the session also resets the buffer
ReconnectCloseClears(c) ==
    /\ task[c].pc = "reconnect_close"
    /\ conns' = CloseSocket(c)
    /\ daemon' = [daemon EXCEPT ![c].ingest = Clear(@)]
    /\ task' = [task EXCEPT ![c].pc = "reconnect_connect"]
    /\ UNCHANGED <<now, args, mainpc, fs, hist>>

ReconnectClose(c) ==
    /\ task[c].pc = "reconnect_close"
    /\ conns' = CloseSocket(c)
    /\ task' = [task EXCEPT ![c].pc = "reconnect_connect"]
    /\ UNCHANGED <<now, args, mainpc, daemon, fs, hist>>

\* variant of ReconnectConnect: no connection is opened after the last window
ReconnectConnectSkipsLast(c) ==
    /\ task[c].pc = "reconnect_connect"
    /\ IF task[c].handler = "closed"
       THEN /\ conns' = [conns EXCEPT ![c] = Append(@, NewConnection)]
            /\ daemon' = [daemon EXCEPT ![c].socket = Len(conns[c]) + 1]
            /\ task' = [task EXCEPT ![c].pc = "resubscribe"]
            /\ Log(c, Event("replace", Ingest(c).name, 0))
       ELSE IF task[c].i < args.windows
       THEN /\ conns' = [conns EXCEPT ![c] = Append(@, NewConnection)]
            /\ daemon' = [daemon EXCEPT ![c].socket = Len(conns[c]) + 1]
            /\ task' = [task EXCEPT ![c].pc = "get_tokens", ![c].i = @ + 1,
                                    ![c].handler = ""]
            /\ Log(c, Event("replace", Ingest(c).name, 0))
       ELSE /\ UNCHANGED <<conns, daemon>>
            /\ task' = [task EXCEPT ![c].pc = "done", ![c].outcome = "returned",
                                    ![c].handler = ""]
            /\ hist' = [hist EXCEPT ![c].events =
                          @ \o <<Event("replace", Ingest(c).name, 0),
                                 Event("terminate", NoName, 0)>>]
    /\ UNCHANGED <<now, args, mainpc, fs>>

\* variant of ReconnectConnect: the connection just closed is opened again
ReconnectConnectReopens(c) ==
    /\ task[c].pc = "reconnect_connect"
    /\ conns' = IF daemon[c].socket = 0 THEN conns
                ELSE [conns EXCEPT ![c][daemon[c].socket].state = "open"]
    /\ IF task[c].handler = "closed"
       THEN /\ task' = [task EXCEPT ![c].pc = "resubscribe"]
            /\ Log(c, Event("replace", Ingest(c).name, 0))
       ELSE IF task[c].i < args.windows
       THEN /\ task' = [task EXCEPT ![c].pc = "get_tokens", ![c].i = @ + 1,
                                    ![c].handler = ""]
            /\ Log(c, Event("replace", Ingest(c).name, 0))
       ELSE /\ task' = [task EXCEPT ![c].pc = "done", ![c].outcome = "returned",
                                    ![c].handler = ""]
            /\ hist' = [hist EXCEPT ![c].events =
                          @ \o <<Event("replace", Ingest(c).name, 0),
                                 Event("terminate", NoName, 0)>>]
    /\ UNCHANGED <<now, args, mainpc, daemon, fs>>

\* self._socket = await connect(...) (main.py:132); then `break` and the next
\* iteration of the for loop (main.py:116, 94), or line 120 in the closed handler
ReconnectConnect(c) ==
    /\ task[c].pc = "reconnect_connect"
    /\ conns' = [conns EXCEPT ![c] = Append(@, NewConnection)]
    /\ daemon' = [daemon EXCEPT ![c].socket = Len(conns[c]) + 1]
    /\ IF task[c].handler = "closed"
       THEN /\ task' = [task EXCEPT ![c].pc = "resubscribe"]
            /\ Log(c, Event("replace", Ingest(c).name, 0))
       ELSE IF task[c].i < args.windows
       THEN /\ task' = [task EXCEPT ![c].pc = "get_tokens", ![c].i = @ + 1,
                                    ![c].handler = ""]
            /\ Log(c, Event("replace", Ingest(c).name, 0))
       ELSE /\ task' = [task EXCEPT ![c].pc = "done", ![c].outcome = "returned",
                                    ![c].handler = ""]
            /\ hist' = [hist EXCEPT ![c].events =
                          @ \o <<Event("replace", Ingest(c).name, 0),
                                 Event("terminate", NoName, 0)>>]
    /\ UNCHANGED <<now, args, mainpc, fs>>

\* await self._subscribe(tokens) in the ConnectionClosedError handler (main.py:120)
Resubscribe(c) ==
    /\ task[c].pc = "resubscribe"
    /\ IF SendRaises(c)
       THEN /\ Raise(c, "ConnectionClosed")
            /\ UNCHANGED <<conns, hist>>
       ELSE /\ conns' = Scribe(c, task[c].tokens)
            /\ task' = [task EXCEPT ![c].pc = "recv", ![c].handler = ""]
            /\ Log(c, Event("resubscribe", task[c].tokens[1].market, task[c].deadline))
    /\ UNCHANGED <<now, args, mainpc, daemon, fs>>

----------------------------------------------------------------------------
(* main (main.py:193-197): the capture task group, then the close task group *)

Daemons == args.coins

\* TaskGroup: the first child that fails makes the group cancel every child that
\* has not finished (main.py:193-194)
Abort ==
    /\ mainpc = "capture"
    /\ \E c \in Daemons : task[c].outcome = "failed"
    /\ mainpc' = "aborting"
    /\ task' = [c \in Coins |->
                  IF c \in Daemons /\ ~Finished(c)
                  THEN [task[c] EXCEPT !.pc = "cancelled", !.outcome = "cancelled",
                                       !.err = "CancelledError"]
                  ELSE task[c]]
    /\ UNCHANGED <<now, args, daemon, conns, fs, hist>>

\* shutdown: asyncio.run cancels main(), whose task group cancels its children
Shutdown ==
    /\ mainpc = "capture"
    /\ \E c \in Daemons : ~Finished(c)
    /\ mainpc' = "cancelling"
    /\ task' = [c \in Coins |->
                  IF c \in Daemons /\ ~Finished(c)
                  THEN [task[c] EXCEPT !.pc = "cancelled", !.outcome = "cancelled",
                                       !.err = "CancelledError"]
                  ELSE task[c]]
    /\ UNCHANGED <<now, args, daemon, conns, fs, hist>>

\* the first `async with` block ends (main.py:193-194): with every capture
\* returned main goes on to the second group, otherwise the exception leaves main()
JoinCapture ==
    /\ mainpc \in {"capture", "aborting", "cancelling"}
    /\ \A c \in Daemons : Finished(c)
    /\ IF mainpc = "capture" /\ \A c \in Daemons : task[c].outcome = "returned"
       THEN /\ mainpc' = "close"
            /\ task' = [c \in Coins |->
                          IF c \in Daemons THEN [task[c] EXCEPT !.pc = "close_socket"]
                          ELSE task[c]]
       ELSE /\ mainpc' = IF mainpc = "cancelling" THEN "cancelled" ELSE "raised"
            /\ UNCHANGED task
    /\ UNCHANGED <<now, args, daemon, conns, fs, hist>>

\* Daemon.close (main.py:125-126)
DaemonCloseSocket(c) ==
    /\ task[c].pc = "close_socket"
    /\ conns' = CloseSocket(c)
    /\ task' = [task EXCEPT ![c].pc = "close_session"]
    /\ UNCHANGED <<now, args, mainpc, daemon, fs, hist>>

\* Daemon.close (main.py:127)
DaemonCloseSession(c) ==
    /\ task[c].pc = "close_session"
    /\ daemon' = [daemon EXCEPT ![c].session = "closed"]
    /\ task' = [task EXCEPT ![c].pc = "closed"]
    /\ UNCHANGED <<now, args, mainpc, conns, fs, hist>>

\* the second `async with` block ends (main.py:196-197)
JoinClose ==
    /\ mainpc = "close"
    /\ \A c \in Daemons : task[c].pc = "closed"
    /\ mainpc' = "done"
    /\ UNCHANGED <<now, args, daemon, task, conns, fs, hist>>

----------------------------------------------------------------------------
(* The environment: the clock, the exchange *)

\* the next point of a capture's schedule: the first start epoch while it sleeps
\* or connects, then the end epoch of its current window
NextEpoch(c) ==
    IF task[c].i = 0 THEN task[c].timestamps[1]
    ELSE task[c].timestamps[task[c].i] + Interval

\* time passes, to the next boundary of the 900 s grid.  A capture may be late
\* for its schedule, by less than one window: the clock does not pass the next
\* epoch of every unfinished capture
Tick ==
    /\ mainpc = "capture"
    /\ \A c \in Daemons : task[c].pc # "init"
    /\ \E c \in Daemons : ~Finished(c) /\ now < NextEpoch(c)
    /\ now' = (now \div Interval + 1) * Interval
    /\ UNCHANGED <<args, mainpc, daemon, task, conns, fs, hist>>

\* the exchange sends a message on the daemon's connection, which is subscribed
Deliver(c) ==
    /\ daemon[c].socket # 0
    /\ Socket(c).state = "open"
    /\ Socket(c).sub # NoTokens
    /\ ~Finished(c)
    /\ Len(hist[c].wire) < MsgLimit
    /\ LET id == Len(hist[c].wire) + 1
       IN /\ conns' = [conns EXCEPT ![c][daemon[c].socket].queue = Append(@, [id |-> id])]
          /\ hist' = [hist EXCEPT ![c].wire =
                        Append(@, [market |-> Socket(c).sub[1].market, at |-> now])]
    /\ UNCHANGED <<now, args, mainpc, daemon, task, fs>>

\* the peer terminates the connection: abnormally ("error") or cleanly ("ok")
PeerClose(c, why) ==
    /\ daemon[c].socket # 0
    /\ Socket(c).state = "open"
    /\ ~Finished(c)
    /\ hist[c].drops < MaxDrops
    /\ conns' = [conns EXCEPT ![c][daemon[c].socket].state = "lost",
                              ![c][daemon[c].socket].why = why]
    /\ hist' = [hist EXCEPT ![c].drops = @ + 1]
    /\ UNCHANGED <<now, args, mainpc, daemon, task, fs>>

----------------------------------------------------------------------------

Next ==
    \/ \E c \in Daemons :
         \/ Start(c) \/ Wake(c) \/ Connect(c) \/ ConnectFail(c)
         \/ GetTokens(c) \/ DiscoveryFail(c) \/ Subscribe(c)
         \/ RecvMessage(c) \/ RecvClosed(c) \/ Timeout(c)
         \/ FlushOpen(c) \/ FlushWriteData(c) \/ FlushWriteSep(c) \/ FlushClose(c)
         \/ \E e \in IOErrors : FlushFail(c, e)
         \/ ReconnectClose(c) \/ ReconnectConnect(c) \/ Resubscribe(c)
         \/ DaemonCloseSocket(c) \/ DaemonCloseSession(c)
         \/ Deliver(c)
         \/ \E why \in {"error", "ok"} : PeerClose(c, why)
    \/ Abort \/ JoinCapture \/ JoinClose
    \/ Tick

\* a run of main() for one coin that is not interrupted from outside
Spec == Init /\ [][Next]_vars

\* a step of the capture coroutine that needs nothing from outside to go wrong:
\* the event loop runs every task that is ready, so these are taken when they
\* stay enabled
TaskStep(c) ==
    \/ Start(c) \/ Wake(c) \/ Connect(c) \/ GetTokens(c) \/ Subscribe(c)
    \/ RecvMessage(c) \/ RecvClosed(c) \/ Timeout(c)
    \/ FlushOpen(c) \/ FlushWriteData(c) \/ FlushWriteSep(c) \/ FlushClose(c)
    \/ ReconnectClose(c) \/ ReconnectConnect(c) \/ Resubscribe(c)

\* a run of main() for one coin in which the event loop keeps running its ready
\* tasks and the clock keeps advancing; the exchange and the storage owe nothing
SpecLive ==
    /\ Init /\ [][Next]_vars
    /\ WF_vars(\E c \in Daemons : TaskStep(c))
    /\ WF_vars(Tick)

NextMain == Next \/ Shutdown

\* a run of main() for two coins, which a shutdown may interrupt
SpecMain == InitMain /\ [][NextMain]_vars

\* the scheduler alone: capture() is entered at any clock value up to MaxClock
InitSched ==
    /\ InitWith({{"btc"}}, 1..MaxWindows, {Dir}, {1})
    /\ now \in 0..MaxClock

NextSched == \E c \in Daemons : Start(c)

SpecSched == InitSched /\ [][NextSched]_vars

----------------------------------------------------------------------------
(* What the properties below speak about *)

\* the start epoch of window k of a capture that began at clock value T
StartEpoch(T, k) == (T \div 900) * 900 + 900 * k

\* <directory>/<coin>-updown-15m-<S_k>.jsonl, or the relative path without directory
WindowFile(c, k) ==
    [dir |-> args.directory,
     stem |-> [coin |-> c, tag |-> "-updown-15m-", start |-> StartEpoch(hist[c].clock0, k)],
     suffix |-> ".jsonl"]

WindowFiles(c) == {WindowFile(c, k) : k \in 1..args.windows}

\* the files that exist and carry the coin in their name
FilesOf(c) == {p \in DOMAIN fs : p.stem.coin = c}

Events(c) == hist[c].events

Happened(c, ev) == \E n \in 1..Len(Events(c)) : Events(c)[n].ev = ev

\* the records appended while the buffer had the given name, in order
RECURSIVE AppendedIn(_, _)
AppendedIn(events, name) ==
    IF events = <<>> THEN <<>>
    ELSE LET e == Head(events)
         IN (IF e.ev = "append" /\ e.name = name THEN <<e.t>> ELSE <<>>)
            \o AppendedIn(Tail(events), name)

\* the bytes of the JSON lines of a sequence of records
RECURSIVE JsonLines(_)
JsonLines(records) ==
    IF records = <<>> THEN <<>>
    ELSE <<Head(records), 0>> \o JsonLines(Tail(records))

\* the handler's flush for the window of the given name has completed
DeadlineFlushed(c, name) ==
    \E n \in 1..Len(Events(c)) : Events(c)[n].ev = "flush" /\ Events(c)[n].name = name

----------------------------------------------------------------------------
(* C1 as stated: a capture(N) that returns has produced exactly the N window *)
(* files <coin>-updown-15m-<S_k>.jsonl, k = 1..N; a run that was aborted has   *)
(* produced fewer; no run produces more than N files or a file of another     *)
(* name                                                                       *)
C1_AbortedProducesFewer ==
    \A c \in Daemons :
        /\ FilesOf(c) \subseteq WindowFiles(c)
        /\ Cardinality(FilesOf(c)) <= args.windows
        /\ task[c].outcome = "returned" => FilesOf(c) = WindowFiles(c)
        /\ task[c].outcome \in {"failed", "cancelled"}
           => Cardinality(FilesOf(c)) < args.windows

(* C1, amended: a capture(N) that returns has produced exactly the N window   *)
(* files <coin>-updown-15m-<S_k>.jsonl, k = 1..N, also for windows without a  *)
(* message; no run produces more than N files or a file of another name (no  *)
(* <coin>.jsonl); with fewer than N files the run has not returned (an        *)
(* aborted run has at most N).                                                *)
C1_ExactlyNWindowFiles ==
    \A c \in Daemons :
        /\ FilesOf(c) \subseteq WindowFiles(c)
        /\ Cardinality(FilesOf(c)) <= args.windows
        /\ task[c].outcome = "returned" => FilesOf(c) = WindowFiles(c)
        /\ Cardinality(FilesOf(c)) < args.windows => task[c].outcome # "returned"

\* a capture of two windows returned with two files although no message ever arrived
C1_Witness ==
    \E c \in Daemons :
        /\ task[c].outcome = "returned"
        /\ args.windows = 2
        /\ hist[c].wire = <<>>
        /\ Cardinality(FilesOf(c)) = 2

(* C2: once the flush at a window's deadline has completed, the window's file *)
(* holds exactly the records appended during that window, each once and in    *)
(* arrival order, whatever the interleaving of automatic flushes and deadline *)
(* (stated for the runs in which the storage raised nothing)                  *)
C2_FileHoldsAppendedOnce ==
    \A c \in Daemons : \A k \in 1..args.windows :
        /\ task[c].pc # "init"
        /\ ~Happened(c, "storage_timeout")
        /\ DeadlineFlushed(c, WindowFile(c, k).stem)
        => /\ WindowFile(c, k) \in DOMAIN fs
           /\ fs[WindowFile(c, k)] = JsonLines(AppendedIn(Events(c), WindowFile(c, k).stem))

(* C3: without a directory capture works as with one: retargeting the buffer  *)
(* to the window's slug raises nothing and the buffer then writes to          *)
(* <slug>.jsonl as a relative path                                            *)
C3_NoDirectoryRetargets ==
    \A c \in Daemons :
        args.directory = NoDir /\ task[c].slug # NoName
        => /\ task[c].err # "AttributeError"
           /\ Ingest(c).filepath = FileName(task[c].slug)

(* C4: the connection-closed handler replaces the session and re-subscribes  *)
(* with window i's tokens and changes nothing else: index, tokens, deadline,  *)
(* buffer (name, pending records, count) and files stay as they are and no    *)
(* flush starts; a later message is appended after the pending records        *)
C4_ReconnectKeepsWindow ==
    [][\A c \in Daemons :
         /\ (task[c].handler = "closed" \/ task'[c].handler = "closed")
            => /\ task'[c].i = task[c].i
               /\ task'[c].tokens = task[c].tokens
               /\ task'[c].deadline = task[c].deadline
               /\ daemon'[c].ingest = daemon[c].ingest
               /\ fs' = fs
               /\ task'[c].pc \notin FlushPcs
         /\ (task[c].pc = "resubscribe" /\ task'[c].pc = "recv")
            => /\ daemon'[c].socket = Len(conns'[c])
               /\ conns'[c][daemon'[c].socket].state = "open"
               /\ conns'[c][daemon'[c].socket].sub =
                      Tokens(Slug(c, StartEpoch(hist[c].clock0, task[c].i)))
               /\ \A n \in 1..(Len(conns'[c]) - 1) : conns'[c][n].state = "closed"
         /\ hist'[c].appends = hist[c].appends + 1
            => /\ daemon'[c].ingest.name = daemon[c].ingest.name
               /\ \E id \in 1..Len(hist[c].wire) :
                      daemon'[c].ingest.set = Append(daemon[c].ingest.set, id)
      ]_vars

\* a record appended before the connection closed and one appended after the
\* re-subscription are both pending, in that order
C4_Witness ==
    \E c \in Daemons : \E n1, n2, n3 \in 1..Len(Events(c)) :
        /\ n1 < n2 /\ n2 < n3
        /\ Events(c)[n1].ev = "append"
        /\ Events(c)[n2].ev = "resubscribe"
        /\ Events(c)[n3].ev = "append"
        /\ Ingest(c).set = <<Events(c)[n1].t, Events(c)[n3].t>>

(* C5: wherever append can be called the buffer's name is the slug of the    *)
(* window whose tokens the current session is subscribed to; every appended   *)
(* record was sent for the window it was appended to, before that window's    *)
(* deadline, never under the buffer's initial name; every record in a file    *)
(* was sent for that file's window                                            *)
C5_AppendTargetsSubscribedWindow ==
    \A c \in Daemons :
        /\ InTimeoutScope(task[c])
           => /\ Ingest(c).name = task[c].slug
              /\ Ingest(c).name.tag = "-updown-15m-"
              /\ Socket(c).sub = Tokens(Ingest(c).name)
        /\ \A n \in 1..Len(Events(c)) :
              Events(c)[n].ev = "append"
              => /\ Events(c)[n].name.tag = "-updown-15m-"
                 /\ hist[c].wire[Events(c)[n].t].market = Events(c)[n].name
                 /\ hist[c].wire[Events(c)[n].t].at < Events(c)[n].name.start + 900
        /\ \A p \in FilesOf(c) : \A n \in 1..Len(fs[p]) :
              fs[p][n] # 0 => hist[c].wire[fs[p][n]].market = p.stem

\* a message was delivered after its window's deadline, and a record has been
\* appended in the second window
C5_Witness ==
    \E c \in Daemons :
        /\ \E m \in 1..Len(hist[c].wire) :
              hist[c].wire[m].at >= hist[c].wire[m].market.start + 900
        /\ \E n \in 1..Len(Events(c)) :
              /\ Events(c)[n].ev = "append"
              /\ Events(c)[n].name.start = StartEpoch(hist[c].clock0, 2)

(* C6: a failure that ends one coin's capture task leaves the other coins'    *)
(* tasks alone: none of them is cancelled                                      *)
C6_FailureLeavesOthersRunning ==
    mainpc \in {"capture", "aborting", "raised"}
    => \A c \in Daemons : task[c].outcome # "cancelled"

\* the records written to a file, in order
RECURSIVE RecordsIn(_)
RecordsIn(bytes) ==
    IF bytes = <<>> THEN <<>>
    ELSE (IF Head(bytes) = 0 THEN <<>> ELSE <<Head(bytes)>>) \o RecordsIn(Tail(bytes))

(* C7: when main() has ended, every coin whose capture task was cancelled or  *)
(* failed after it had appended records has had them flushed to the window's  *)
(* file (none is left in the buffer, every appended record is in its file)    *)
(* and its stream session and discovery session closed                        *)
C7_FinalFlushThenClose ==
    mainpc \in {"raised", "cancelled", "done"}
    => \A c \in Daemons :
          task[c].outcome \in {"failed", "cancelled"} /\ Happened(c, "append")
          => /\ Ingest(c).set = <<>>
             /\ \A n \in 1..Len(Events(c)) :
                   Events(c)[n].ev = "append"
                   => \E p \in FilesOf(c) : \E m \in 1..Len(fs[p]) :
                          fs[p][m] = Events(c)[n].t
             /\ Socket(c).state = "closed"
             /\ daemon[c].session = "closed"

(* C8: since the buffer was last emptied by retargeting, k appends have made  *)
(* floor(k / until_flush) automatic flushes (one at exactly until_flush, none *)
(* at until_flush - 1), and whenever no flush is in progress the buffer holds *)
(* the k mod until_flush records appended since the last one (count equal)    *)
C8_AutoFlushEveryUntilFlush ==
    \A c \in Daemons :
        /\ hist[c].autos = hist[c].appends \div Ingest(c).until_flush
        /\ task[c].pc = "recv"
           => /\ Ingest(c).number_of_logs = hist[c].appends % Ingest(c).until_flush
              /\ Len(Ingest(c).set) = Ingest(c).number_of_logs

\* with until_flush = 2, two appends have made one flush, which has emptied the buffer
C8_Witness ==
    \E c \in Daemons :
        /\ Ingest(c).until_flush = 2
        /\ hist[c].appends = 2
        /\ hist[c].autos = 1
        /\ task[c].pc = "recv"
        /\ Ingest(c).set = <<>> /\ Ingest(c).number_of_logs = 0

(* C9: for a capture entered at clock T the start epochs are multiples of 900 *)
(* spaced 900 apart, N of them, the first one floor(T/900)*900 + 900, which is *)
(* greater than T and at most T + 900; the task sleeps until the first        *)
C9_ScheduleAligned ==
    \A c \in Daemons :
        task[c].pc # "init"
        => LET T == hist[c].clock0
               ts == task[c].timestamps
           IN /\ Len(ts) = args.windows
              /\ ts[1] = (T \div 900) * 900 + 900
              /\ ts[1] > T /\ ts[1] <= T + 900
              /\ \A k \in 1..Len(ts) : ts[k] % 900 = 0
              /\ \A k \in 1..(Len(ts) - 1) : ts[k + 1] - ts[k] = 900
              /\ task[c].wake = ts[1]

\* one second before a grid point the first window starts at that grid point
C9_Witness ==
    \E c \in Daemons :
        /\ task[c].pc = "sleep"
        /\ hist[c].clock0 = 1799
        /\ args.windows = 2
        /\ task[c].timestamps = <<1800, 2700>>

\* what the task did apart from appending records
Control(events) == SelectSeq(events, LAMBDA e : e.ev # "append")

IsPrefix(a, b) == Len(a) <= Len(b) /\ SubSeq(b, 1, Len(a)) = a

\* neither the peer nor the storage has disturbed the capture, and it has not failed
FaultFree(c) ==
    /\ task[c].outcome \notin {"failed", "cancelled"}
    /\ ~Happened(c, "closed") /\ ~Happened(c, "storage_timeout")
    /\ hist[c].drops = 0

\* resolve, subscribe, capture until the end epoch, flush, replace: window k of coin c
WindowEvents(c, T, k) ==
    LET slug == [coin |-> c, tag |-> "-updown-15m-", start |-> StartEpoch(T, k)]
    IN <<Event("resolve", slug, 0), Event("subscribe", slug, StartEpoch(T, k) + 900),
         Event("timeout", slug, 0), Event("flush", slug, 0), Event("replace", slug, 0)>>

RECURSIVE WindowsFrom(_, _, _, _)
WindowsFrom(c, T, k, N) ==
    IF k > N THEN <<>> ELSE WindowEvents(c, T, k) \o WindowsFrom(c, T, k + 1, N)

ExpectedEvents(c, T, N) ==
    <<Event("sleep", NoName, StartEpoch(T, 1))>> \o WindowsFrom(c, T, 1, N)
        \o <<Event("terminate", NoName, 0)>>

\* the control event that precedes position n
RECURSIVE LastControl(_, _)
LastControl(events, n) ==
    IF n = 0 THEN Event("none", NoName, 0)
    ELSE IF events[n].ev # "append" THEN events[n]
    ELSE LastControl(events, n - 1)

\* the scenario of the specification: "btc", two windows, clock 1000
InstanceEvents ==
    LET w1 == [coin |-> "btc", tag |-> "-updown-15m-", start |-> 1800]
        w2 == [coin |-> "btc", tag |-> "-updown-15m-", start |-> 2700]
    IN <<Event("sleep", NoName, 1800),
         Event("resolve", w1, 0), Event("subscribe", w1, 2700), Event("timeout", w1, 0),
         Event("flush", w1, 0), Event("replace", w1, 0),
         Event("resolve", w2, 0), Event("subscribe", w2, 3600), Event("timeout", w2, 0),
         Event("flush", w2, 0), Event("replace", w2, 0),
         Event("terminate", NoName, 0)>>

(* C10: in a fault-free run the task sleeps until S_1, then for each window   *)
(* in turn resolves, subscribes, captures until S_k + 900, flushes, replaces  *)
(* the session, and then terminates: what it has done is always a prefix of   *)
(* that sequence, records are appended only between a window's subscription   *)
(* and its deadline, no connection is opened before S_1 and no window is left *)
(* before its end epoch; "btc", N = 2, clock 1000 gives 1800, 2700, 3600 and  *)
(* two files                                                                  *)
C10_FaultFreeOrder ==
    \A c \in Daemons :
        FaultFree(c) /\ task[c].pc # "init"
        => LET T == hist[c].clock0
               N == args.windows
           IN /\ IsPrefix(Control(Events(c)), ExpectedEvents(c, T, N))
              /\ task[c].outcome = "returned"
                 => /\ Control(Events(c)) = ExpectedEvents(c, T, N)
                    /\ Cardinality(FilesOf(c)) = N
              /\ conns[c] # <<>> => now >= StartEpoch(T, 1)
              /\ \A n \in 1..Len(Events(c)) :
                    /\ Events(c)[n].ev = "timeout"
                       => now >= Events(c)[n].name.start + 900
                    /\ Events(c)[n].ev = "append"
                       => /\ LastControl(Events(c), n).ev = "subscribe"
                          /\ LastControl(Events(c), n).name = Events(c)[n].name
              /\ (c = "btc" /\ T = 1000 /\ N = 2 /\ task[c].outcome = "returned")
                 => /\ Control(Events(c)) = InstanceEvents
                    /\ {p.stem.start : p \in FilesOf(c)} = {1800, 2700}

\* a fault-free capture of two windows has returned with a record in each window
C10_Witness ==
    \E c \in Daemons :
        /\ FaultFree(c)
        /\ task[c].outcome = "returned"
        /\ args.windows = 2
        /\ \A k \in 1..2 : AppendedIn(Events(c), WindowFile(c, k).stem) # <<>>

(* C11: a flush of a buffer without pending records raises nothing of its     *)
(* own (the task can only fail with an error of the storage), writes nothing:  *)
(* every file keeps its content and a file the open creates is empty; the     *)
(* buffer stays empty with count 0                                             *)
C11_EmptyFlushWritesNothing ==
    [][\A c \in Daemons :
         task[c].pc \in FlushPcs /\ Ingest(c).set = <<>>
         => /\ \A p \in DOMAIN fs : p \in DOMAIN fs' /\ fs'[p] = fs[p]
            /\ \A p \in DOMAIN fs' : p \notin DOMAIN fs => fs'[p] = <<>>
            /\ daemon'[c].ingest.set = <<>>
            /\ daemon'[c].ingest.number_of_logs = 0
            /\ task'[c].pc \notin {"flush_data", "flush_sep"}
            /\ task'[c].outcome = "failed" => task'[c].err \in IOErrors
      ]_vars

\* the flush at the deadline found the buffer empty, after an automatic flush had
\* written the window's only record: the file still holds that record alone
C11_Witness ==
    \E c \in Daemons :
        /\ task[c].pc = "reconnect_close" /\ task[c].handler = "timeout"
        /\ ~Happened(c, "storage_timeout")
        /\ hist[c].appends = 1 /\ hist[c].autos = 1
        /\ Ingest(c).set = <<>> /\ Ingest(c).number_of_logs = 0
        /\ fs[Ingest(c).filepath] = <<1, 0>>

(* C12: when the subscribe message for window i is sent (first window and     *)
(* every rotation) the buffer already carries window i's slug and is empty,   *)
(* the connection it is sent on is the newest one and was never subscribed    *)
(* before, and every earlier connection is closed with nothing left to read;  *)
(* every record appended was read from the current connection, which is      *)
(* subscribed to the tokens of the buffer's name                              *)
C12_RetargetBeforeSubscribe ==
    [][\A c \in Daemons :
         /\ (task[c].pc = "subscribe" /\ task'[c].pc = "recv")
            => /\ Ingest(c).name = Slug(c, StartEpoch(hist[c].clock0, task[c].i))
               /\ Ingest(c).set = <<>>
               /\ task[c].tokens = Tokens(Ingest(c).name)
               /\ daemon[c].socket = Len(conns[c])
               /\ Socket(c).sub = NoTokens
               /\ conns'[c][daemon[c].socket].sub = Tokens(Ingest(c).name)
               /\ \A n \in 1..(Len(conns[c]) - 1) :
                      conns[c][n].state = "closed" /\ conns[c][n].queue = <<>>
         /\ hist'[c].appends = hist[c].appends + 1
            => /\ daemon[c].socket = Len(conns[c])
               /\ Socket(c).sub = Tokens(Ingest(c).name)
               /\ Socket(c).queue # <<>>
               /\ conns'[c][daemon[c].socket].queue = Tail(Socket(c).queue)
               /\ daemon'[c].ingest.set = Append(Ingest(c).set, Head(Socket(c).queue).id)
               /\ hist[c].wire[Head(Socket(c).queue).id].market = Ingest(c).name
      ]_vars

\* a message sent on the first window's session after its deadline was never
\* appended; the session was closed, and a record of the second window is pending
C12_Witness ==
    \E c \in Daemons :
        /\ Len(conns[c]) = 2 /\ conns[c][1].state = "closed"
        /\ Len(hist[c].wire) = 2
        /\ hist[c].wire[1].market.start = StartEpoch(hist[c].clock0, 1)
        /\ hist[c].wire[1].at >= StartEpoch(hist[c].clock0, 2)
        /\ AppendedIn(Events(c), WindowFile(c, 1).stem) = <<>>
        /\ Ingest(c).name.start = StartEpoch(hist[c].clock0, 2)
        /\ Ingest(c).set = <<2>>

\* the bytes b are the end of the file content f
IsSuffix(b, f) == Len(b) <= Len(f) /\ SubSeq(f, Len(f) - Len(b) + 1, Len(f)) = b

(* C13: while a flush is under way the pending records and the count stay as  *)
(* they were when it started, whatever happens to it (a storage error, the    *)
(* deadline, a cancellation); they are reset, both together, only by the step *)
(* that ends a flush which has written every pending record to the file       *)
C13_ClearOnlyAfterFullWrite ==
    [][\A c \in Daemons :
         task[c].pc \in FlushPcs
         => /\ Ingest(c).number_of_logs = Len(Ingest(c).set)
            /\ \/ daemon'[c].ingest = daemon[c].ingest
               \/ /\ task[c].pc = "flush_close"
                  /\ task'[c].outcome = ""
                  /\ task'[c].pc = AfterFlush(task[c].fkind)
                  /\ daemon'[c].ingest = Clear(Ingest(c))
                  /\ IsSuffix(JsonLines(Ingest(c).set), fs[Ingest(c).filepath])
                  /\ fs' = fs
      ]_vars

\* the storage failed after the first of two pending records had been written:
\* both are still pending and counted
C13_Witness ==
    \E c \in Daemons :
        /\ task[c].outcome = "failed" /\ task[c].err = "OSError"
        /\ Ingest(c).set = <<1, 2>> /\ Ingest(c).number_of_logs = 2
        /\ Ingest(c).filepath \in DOMAIN fs
        /\ fs[Ingest(c).filepath] = <<1, 0>>

(* C14: an error the storage raises in a flush, the automatic one inside      *)
(* append or the one at the window's deadline, ends the capture task with     *)
(* that error: it is not handled as a window timeout or a closed connection,  *)
(* and the task goes on to no later step                                      *)
C14_FlushFailureIsFatal ==
    [][\A c \in Daemons : \A e \in IOErrors :
         FlushFail(c, e)
         => /\ task'[c].outcome = "failed"
            /\ task'[c].err = e
            /\ task'[c].handler = task[c].handler
            /\ hist'[c].events = hist[c].events
      ]_vars

\* the subscribe message for the buffer's current window has been sent
WindowActive(c) ==
    \E n \in 1..Len(Events(c)) :
        Events(c)[n].ev = "subscribe" /\ Events(c)[n].name = Ingest(c).name

(* C15: a connection the peer terminates while a window is active, cleanly or *)
(* abnormally, also while the recovery is re-subscribing, never ends the      *)
(* capture task: no task whose window is active has failed with a            *)
(* connection-closed error                                                    *)
C15_PeerCloseRecovered ==
    \A c \in Daemons :
        WindowActive(c) /\ task[c].outcome = "failed"
        => task[c].err \notin {"ConnectionClosedOK", "ConnectionClosed"}

\* the connections of a daemon that have not been closed
NotClosed(cs) == {n \in 1..Len(cs) : cs[n].state # "closed"}

(* C16: a daemon never has more than one connection that is not closed, and   *)
(* it is the one the daemon holds; a connection is opened only when every     *)
(* existing one has been closed, it is a new one, and a closed connection is  *)
(* never changed or held again                                                *)
C16_AtMostOneConnection ==
    [][\A c \in Daemons :
         /\ Cardinality(NotClosed(conns[c])) <= 1
         /\ Cardinality(NotClosed(conns'[c])) <= 1
         /\ NotClosed(conns'[c]) \subseteq {daemon'[c].socket}
         /\ Len(conns'[c]) >= Len(conns[c])
         /\ Len(conns'[c]) > Len(conns[c])
            => /\ NotClosed(conns[c]) = {}
               /\ conns'[c] = Append(conns[c], NewConnection)
               /\ daemon'[c].socket = Len(conns'[c])
         /\ \A n \in 1..Len(conns[c]) :
               conns[c][n].state = "closed" => conns'[c][n] = conns[c][n]
         /\ daemon'[c].socket # daemon[c].socket => daemon'[c].socket > Len(conns[c])
      ]_vars

\* after a planned rotation and an unplanned reconnect the daemon has had three
\* connections: two are closed, the third is open
C16_Witness ==
    \E c \in Daemons :
        /\ Happened(c, "resubscribe") /\ Happened(c, "flush")
        /\ Len(conns[c]) = 3
        /\ conns[c][1].state = "closed" /\ conns[c][2].state = "closed"
        /\ conns[c][3].state = "open"
        /\ daemon[c].socket = 3

\* the failures the termination property leaves aside: connect() or the storage
\* raised, or the discovery request failed
ExcludedFailure(c) ==
    task[c].outcome = "failed"
    /\ task[c].err \in {"OSError", "TimeoutError", "DiscoveryFailure"}

(* C17: once a window is active and its end epoch has passed the task leaves  *)
(* it through the planned rotation (the flush at the deadline completes),     *)
(* whatever messages arrive and however the peer terminates connections; so   *)
(* a capture(N) with a directory whose first window has become active         *)
(* returns, unless discovery, connect or a file write failed                  *)
C17_DeadlineHonoured ==
    \A c \in Coins :
        (c \in Daemons /\ args.directory = Dir)
        => /\ (WindowActive(c) /\ task[c].pc = "recv" /\ now >= task[c].deadline)
                ~> (DeadlineFlushed(c, Ingest(c).name) \/ ExcludedFailure(c))
           /\ WindowActive(c) ~> (task[c].outcome = "returned" \/ ExcludedFailure(c))

(* C18: when main() has ended, with every capture returned or with one of     *)
(* them failed, no daemon that had opened a stream connection has one that is *)
(* not closed, and its discovery session is closed                            *)
C18_NothingLeftOpen ==
    mainpc \in {"done", "raised"}
    => \A c \in Daemons :
          conns[c] # <<>>
          => /\ NotClosed(conns[c]) = {}
             /\ daemon[c].session = "closed"

\* the record is among the bytes of the file of the given name
Written(c, name, record) ==
    \E p \in FilesOf(c) : p.stem = name /\ \E m \in 1..Len(fs[p]) : fs[p][m] = record

(* C19: every time capture sets the buffer's name, at the first window and at *)
(* every rotation, the buffer is empty (count 0) although the setter would    *)
(* discard what is pending; every record appended before has been written to  *)
(* its window's file, so retargeting discards none                            *)
C19_RetargetFindsBufferEmpty ==
    [][\A c \in Daemons :
         daemon'[c].ingest.name # daemon[c].ingest.name
         => /\ task[c].pc = "get_tokens"
            /\ Ingest(c).set = <<>>
            /\ Ingest(c).number_of_logs = 0
            /\ \A n \in 1..Len(Events(c)) :
                  Events(c)[n].ev = "append"
                  => Written(c, Events(c)[n].name, Events(c)[n].t)
      ]_vars

\* the buffer has been retargeted to the second window; the record that was
\* pending at the first window's deadline is in the first window's file
C19_Witness ==
    \E c \in Daemons :
        /\ task[c].pc = "subscribe" /\ task[c].i = 2
        /\ Ingest(c).until_flush = 2
        /\ Ingest(c).name.start = StartEpoch(hist[c].clock0, 2)
        /\ AppendedIn(Events(c), WindowFile(c, 1).stem) = <<1>>
        /\ fs[WindowFile(c, 1)] = <<1, 0>>
        /\ Ingest(c).set = <<>>

\* how many times the task has done the given thing
Count(c, ev) == Len(SelectSeq(Events(c), LAMBDA e : e.ev = ev))

(* C20: every completed session replacement opens one new connection, also    *)
(* the planned one after the last window; a capture(N) that returns after k   *)
(* unplanned reconnects has opened exactly 1 + N + k connections, and at the  *)
(* moment it returns the daemon holds the last of them, open, never           *)
(* subscribed, with every other one closed                                    *)
C20_ConnectionsOpened ==
    [][\A c \in Daemons :
         /\ (task[c].pc = "reconnect_connect"
               /\ task'[c].pc \notin {"reconnect_connect", "failed", "cancelled"})
            => Len(conns'[c]) = Len(conns[c]) + 1
         /\ (task[c].outcome = "" /\ task'[c].outcome = "returned")
            => /\ Count(c, "timeout") + Count(c, "storage_timeout") = args.windows
               /\ Len(conns'[c]) = 1 + args.windows + Count(c, "closed")
               /\ daemon'[c].socket = Len(conns'[c])
               /\ conns'[c][daemon'[c].socket] = NewConnection
               /\ \A n \in 1..(Len(conns'[c]) - 1) : conns'[c][n].state = "closed"
      ]_vars

\* a capture of two windows has returned after one unplanned reconnect: four
\* connections, the fourth open and never subscribed
C20_Witness ==
    \E c \in Daemons :
        /\ task[c].outcome = "returned" /\ mainpc = "capture"
        /\ args.windows = 2 /\ Count(c, "closed") = 1
        /\ Len(conns[c]) = 4
        /\ conns[c][4].state = "open" /\ conns[c][4].sub = NoTokens
        /\ conns[c][3].sub # NoTokens

====
